---------------------------- MODULE Spec2Model ----------------------------
(***************************************************************************)
(* Model of the phone-catalogue program (src/src/main.rs): the per-row     *)
(* normalisation done by Cell::read_csv and Cell::check_empty, the eight   *)
(* aggregation queries over the record collection, and main.               *)
(*                                                                         *)
(* Texts are sequences of characters, a character being a one-token        *)
(* string.  Option<T> is a sequence: None is <<>> and Some(x) is <<x>>.    *)
(* An f32 is a pair <<n, d>>: the rational n/d in lowest terms, with       *)
(* <<1, 0>> for +infinity.  Rounding to 24 bits of mantissa is not         *)
(* modelled; overflow to infinity is.                                      *)
(***************************************************************************)
EXTENDS Integers, Sequences, FiniteSets, TLC

VARIABLES
    text,     \* SpecText: the text cell the extraction functions are applied to
    applied,  \* SpecText: the functions applied to text so far
    ce,       \* SpecText: result of check_empty(text)
    yr,       \* SpecText: launch_announced extracted from text
    num,      \* SpecText: body_weight / display_size extracted from text
    row,      \* SpecRow: the csv record (12 text cells) of one loop iteration
    cell,     \* SpecRow: the Cell built from row
    cells,    \* the record collection (Vec<Cell>)
    res,      \* last value returned by each aggregation query
    called,   \* the queries invoked so far
    pc        \* control position

vars == <<text, applied, ce, yr, num, row, cell, cells, res, called, pc>>

-----------------------------------------------------------------------------
(* Bounds of the model *)

MaxLen == 4

MaxCells == 3

-----------------------------------------------------------------------------
(* Option<T> *)

None == <<>>

Some(x) == <<x>>

IsSome(o) == o # <<>>

Unwrap(o) == o[1]

-----------------------------------------------------------------------------
(* Characters *)

\* A decimal digit outside ASCII (ARABIC-INDIC DIGIT TWO): \d of the regex
\* crate is Unicode-aware and matches it, str::parse does not accept it.
ArabicTwo == "U+0662"

AsciiDigits == <<"0", "1", "2", "3", "4", "5", "6", "7", "8", "9">>

IsAsciiDigit(c) == \E i \in 1..10 : AsciiDigits[i] = c

DigitVal(c) == (CHOOSE i \in 1..10 : AsciiDigits[i] = c) - 1

\* regex \d (Unicode class Nd)
IsDigit(c) == IsAsciiDigit(c) \/ c = ArabicTwo

\* Characters of the model that are not word characters (\w); every other
\* character used is a letter or a digit.
NonWord == {" ", "-", ".", ",", "+"}

IsWord(c) == c \notin NonWord

\* char::is_whitespace, as used by str::trim
IsSpace(c) == c = " "

-----------------------------------------------------------------------------
(* str::trim *)

RECURSIVE TrimStart(_)
TrimStart(v) ==
    IF v # <<>> /\ IsSpace(v[1]) THEN TrimStart(Tail(v)) ELSE v

RECURSIVE TrimEnd(_)
TrimEnd(v) ==
    IF v # <<>> /\ IsSpace(v[Len(v)]) THEN TrimEnd(SubSeq(v, 1, Len(v) - 1)) ELSE v

Trim(v) == TrimEnd(TrimStart(v))

check_empty_no_trim(value) ==
    IF value = <<>> \/ value = <<"-">> THEN None ELSE Some(value)

check_empty_dash_kept(value) ==
    IF Trim(value) = <<>> THEN None ELSE Some(value)

\* Cell::check_empty
check_empty(value) ==
    IF Trim(value) = <<>> \/ Trim(value) = <<"-">> THEN None ELSE Some(value)

-----------------------------------------------------------------------------
(* Regex r"\b(\d{4})\b" and r"\d+(\.\d+)?" *)

\* \b(\d{4})\b matches at position i
YearAt(s, i) ==
    /\ i + 3 <= Len(s)
    /\ \A k \in 0..3 : IsDigit(s[i + k])
    /\ (i = 1 \/ ~IsWord(s[i - 1]))
    /\ (i + 3 = Len(s) \/ ~IsWord(s[i + 4]))

\* regex_year.captures(s): the leftmost match, or None
regex_year(s) ==
    LET hits == {i \in 1..Len(s) : YearAt(s, i)}
    IN  IF hits = {} THEN None
        ELSE LET i == CHOOSE h \in hits : \A g \in hits : h <= g
             IN  Some(SubSeq(s, i, i + 3))

\* end of the maximal run of digits that starts at i
RECURSIVE DigitRunEnd(_, _)
DigitRunEnd(s, i) ==
    IF i + 1 <= Len(s) /\ IsDigit(s[i + 1]) THEN DigitRunEnd(s, i + 1) ELSE i

\* regex_numeric.captures(s): the leftmost match, greedy, or None
regex_numeric(s) ==
    LET hits == {i \in 1..Len(s) : IsDigit(s[i])}
    IN  IF hits = {} THEN None
        ELSE LET i == CHOOSE h \in hits : \A g \in hits : h <= g
                 j == DigitRunEnd(s, i)
                 e == IF j + 2 <= Len(s) /\ s[j + 1] = "." /\ IsDigit(s[j + 2])
                      THEN DigitRunEnd(s, j + 2) ELSE j
             IN  Some(SubSeq(s, i, e))

-----------------------------------------------------------------------------
(* str::parse::<u32> and str::parse::<f32>; Ok(x) is Some(x), Err is None *)

RECURSIVE StripZeros(_)
StripZeros(d) ==
    IF d # <<>> /\ d[1] = "0" THEN StripZeros(Tail(d)) ELSE d

\* the digit strings a and b have the same length: a < b as numbers
RECURSIVE DigitsLess(_, _)
DigitsLess(a, b) ==
    IF a = <<>> THEN FALSE
    ELSE IF a[1] # b[1] THEN DigitVal(a[1]) < DigitVal(b[1])
    ELSE DigitsLess(Tail(a), Tail(b))

\* a < b as numbers, for digit strings without leading zeros
NumLess(a, b) ==
    \/ Len(a) < Len(b)
    \/ Len(a) = Len(b) /\ DigitsLess(a, b)

RECURSIVE DigitsValue(_)
DigitsValue(d) ==
    IF d = <<>> THEN 0 ELSE 10 * DigitsValue(SubSeq(d, 1, Len(d) - 1)) + DigitVal(d[Len(d)])

\* u32::MAX = 4294967295
U32MaxDigits == <<"4", "2", "9", "4", "9", "6", "7", "2", "9", "5">>

\* s.parse::<u32>(): an optional '+', then ASCII digits only, no overflow
parse_u32(s) ==
    LET d == IF s # <<>> /\ s[1] = "+" THEN Tail(s) ELSE s
    IN  IF d = <<>> \/ \E i \in 1..Len(d) : ~IsAsciiDigit(d[i]) THEN None
        ELSE IF NumLess(U32MaxDigits, StripZeros(d)) THEN None
        ELSE Some(DigitsValue(StripZeros(d)))

Inf == <<1, 0>>

IsFinite(x) == x[2] # 0

RECURSIVE Gcd(_, _)
Gcd(a, b) == IF b = 0 THEN a ELSE Gcd(b, a % b)

Rat(n, d) == IF n = 0 THEN <<0, 1>> ELSE <<n \div Gcd(n, d), d \div Gcd(n, d)>>

RECURSIVE Pow10(_)
Pow10(k) == IF k = 0 THEN 1 ELSE 10 * Pow10(k - 1)

\* Decimal literals at or above 2^128 - 2^103 round to +infinity in f32
F32OverflowDigits ==
    <<"3", "4", "0", "2", "8", "2", "3", "5", "6", "7", "7", "9", "7",
      "3", "3", "6", "6", "1", "6", "3", "7", "5", "3", "9", "3", "9",
      "5", "4", "5", "8", "1", "4", "2", "5", "6", "8", "4", "4", "8">>

\* position of the '.' in a literal, 0 when it has none
DotAt(s) ==
    IF \E i \in 1..Len(s) : s[i] = "." THEN CHOOSE i \in 1..Len(s) : s[i] = "." ELSE 0

\* s.parse::<f32>() of a literal digits[.digits]: Err on a non-ASCII digit,
\* Ok(inf) on overflow (never Err), Ok(value) otherwise
parse_f32(s) ==
    LET p == DotAt(s)
        ip == IF p = 0 THEN s ELSE SubSeq(s, 1, p - 1)
        fp == IF p = 0 THEN <<>> ELSE SubSeq(s, p + 1, Len(s))
    IN  IF \E i \in 1..Len(ip) : ~IsAsciiDigit(ip[i]) THEN None
        ELSE IF \E i \in 1..Len(fp) : ~IsAsciiDigit(fp[i]) THEN None
        ELSE IF ~NumLess(StripZeros(ip), F32OverflowDigits) THEN Some(Inf)
        ELSE Some(Rat(DigitsValue(ip \o fp), Pow10(Len(fp))))


-----------------------------------------------------------------------------
(* The extraction rules of read_csv, per text cell *)

\* launch_announced (lines 72-76): capture[0].parse::<u32>().unwrap() panics
\* when the captured text does not parse
year_panics(s) ==
    IsSome(regex_year(s)) /\ parse_u32(Unwrap(regex_year(s))) = None

extract_year(s) ==
    IF regex_year(s) = None THEN None ELSE parse_u32(Unwrap(regex_year(s)))

\* launch_status (lines 78-84): the captured year, else the raw status
extract_status(s) ==
    IF IsSome(regex_year(s)) THEN Some(Unwrap(regex_year(s))) ELSE Some(s)

\* body_weight and display_size (lines 86-92, 98-104): the field stays None
\* unless the pattern matches and the match parses
extract_numeric(s) ==
    IF regex_numeric(s) = None THEN None
    ELSE parse_f32(Unwrap(regex_numeric(s)))

-----------------------------------------------------------------------------
(* SpecText: the extraction functions applied to one text cell *)

TextAlphabet == {" ", "-", "a", "1", ".", ArabicTwo}

\* a run of 9s as long as the f32 overflow threshold
LongNines == [i \in 1..Len(F32OverflowDigits) |-> "9"]

Texts == UNION {[1..n -> TextAlphabet] : n \in 0..MaxLen} \cup {LongNines}

Queries ==
    {"year_most", "highest_avg", "single_sensor", "mismatched",
     "most_common_oem", "most_common_display_size", "mean", "median"}

\* value of res before any query has returned
NoRes == [q \in Queries |-> IF q = "single_sensor" THEN 0 ELSE <<>>]

InitText ==
    /\ text \in Texts
    /\ applied = {}
    /\ ce = None /\ yr = None /\ num = None
    /\ row = <<>> /\ cell = <<>> /\ cells = <<>>
    /\ res = NoRes /\ called = {}
    /\ pc = "run"

ApplyCheckEmpty ==
    /\ pc = "run" /\ "check_empty" \notin applied
    /\ ce' = check_empty(text)
    /\ applied' = applied \cup {"check_empty"}
    /\ UNCHANGED <<text, yr, num, row, cell, cells, res, called, pc>>

ApplyYear ==
    /\ pc = "run" /\ "year" \notin applied
    /\ applied' = applied \cup {"year"}
    /\ IF year_panics(text)
       THEN pc' = "panic" /\ yr' = yr
       ELSE pc' = pc /\ yr' = extract_year(text)
    /\ UNCHANGED <<text, ce, num, row, cell, cells, res, called>>

ApplyNumeric ==
    /\ pc = "run" /\ "numeric" \notin applied
    /\ num' = extract_numeric(text)
    /\ applied' = applied \cup {"numeric"}
    /\ UNCHANGED <<text, ce, yr, row, cell, cells, res, called, pc>>

NextText == ApplyCheckEmpty \/ ApplyYear \/ ApplyNumeric

SpecText == InitText /\ [][NextText]_vars

-----------------------------------------------------------------------------
(* Claims about the text functions, checked under SpecText *)

\* v without its leading and trailing whitespace, stated by position
Stripped(v) ==
    LET ns == {i \in 1..Len(v) : ~IsSpace(v[i])}
    IN  IF ns = {} THEN <<>>
        ELSE SubSeq(v, CHOOSE i \in ns : \A j \in ns : i <= j,
                       CHOOSE i \in ns : \A j \in ns : i >= j)

\* C1: check_empty(v) is absent if and only if v without its leading and
\* trailing whitespace is "" or "-"; otherwise it is present and equals the
\* original, untrimmed v.
C1_CheckEmpty ==
    "check_empty" \in applied =>
        /\ (ce = None) <=> (Stripped(text) \in {<<>>, <<"-">>})
        /\ (ce # None => ce = Some(text))

\* check_empty has returned absent for a padded dash
C1_Witness_PaddedDash ==
    /\ "check_empty" \in applied
    /\ text = <<" ", "-", " ">>
    /\ ce = None

\* the cell holds an ASCII digit
HasNumeric(s) == \E i \in 1..Len(s) : IsAsciiDigit(s[i])

\* C3: body_weight / display_size is absent exactly when the cell contains
\* no numeric substring, and otherwise is present, finite and equal to the
\* value of the first numeric literal of the cell.
C3_NumericExtraction ==
    "numeric" \in applied =>
        /\ (num = None) <=> ~HasNumeric(text)
        /\ (num # None =>
               /\ IsFinite(Unwrap(num))
               /\ Some(Unwrap(num)) = parse_f32(Unwrap(regex_numeric(text))))

\* C4: whenever the year pattern matches, parsing the match succeeds, so the
\* panic of the unwrap is unreachable; without a match the year is absent.
C4_YearNeverPanics ==
    /\ pc # "panic"
    /\ ("year" \in applied /\ regex_year(text) = None => yr = None)


-----------------------------------------------------------------------------
(* Cell and the loop body of read_csv *)

\* Cell::new
NewCell ==
    [oem |-> None, model |-> None, launch_announced |-> None,
     launch_status |-> None, body_dimensions |-> None, body_weight |-> None,
     body_sim |-> None, display_type |-> None, display_size |-> None,
     display_resolution |-> None, features_sensors |-> None,
     platform_os |-> None]

\* record.get(k): field k (from 0) of a csv record, None past its end
Get(r, k) == IF k + 1 <= Len(r) THEN Some(r[k + 1]) ELSE None

\* record.get(k).unwrap_or_default()
GetOrDefault(r, k) == IF IsSome(Get(r, k)) THEN Unwrap(Get(r, k)) ELSE <<>>

\* the unwrap of line 73 panics on this record
row_panics(r) == year_panics(GetOrDefault(r, 2))

\* body_weight, display_size: the field is only assigned inside
\* if let Some(..) = record.get(k)
numeric_field(r, k) ==
    IF IsSome(Get(r, k)) THEN extract_numeric(Unwrap(Get(r, k))) ELSE None

\* the Cell pushed for one csv record (lines 67-110)
read_record(r) ==
    [oem |-> Some(GetOrDefault(r, 0)),
     model |-> Some(GetOrDefault(r, 1)),
     launch_announced |-> extract_year(GetOrDefault(r, 2)),
     launch_status |-> extract_status(GetOrDefault(r, 3)),
     body_dimensions |-> check_empty(GetOrDefault(r, 4)),
     body_weight |-> numeric_field(r, 5),
     body_sim |-> check_empty(GetOrDefault(r, 6)),
     display_type |-> check_empty(GetOrDefault(r, 7)),
     display_size |-> numeric_field(r, 8),
     display_resolution |-> check_empty(GetOrDefault(r, 9)),
     features_sensors |-> check_empty(GetOrDefault(r, 10)),
     platform_os |-> check_empty(GetOrDefault(r, 11))]

-----------------------------------------------------------------------------
(* SpecRow: one iteration of the read_csv loop, over every combination of *)
(* the column values below (the 12 columns of cells.csv)                  *)

Rows ==
    {<<c0, c1, c2, c3, c4, c5, c6, c7, c8, c9, c10, c11>> :
        c0 \in {<<>>, <<"A">>},
        c1 \in {<<"-">>, <<"M">>},
        c2 \in {<<>>, <<"2", "0", "2", "0">>, <<ArabicTwo, "0", "2", "0">>},
        c3 \in {<<>>, <<"-">>, <<"R", " ", "2", "0", "2", "1">>},
        c4 \in {<<>>, <<"-">>, <<"a">>},
        c5 \in {<<>>, <<"5", " ", "g">>},
        c6 \in {<<" ">>, <<"a">>},
        c7 \in {<<"-">>, <<"a">>},
        c8 \in {<<"-">>, <<"6", ".", "1">>},
        c9 \in {<<>>, <<"a">>},
        c10 \in {<<"-">>, <<"a", ",", "b">>},
        c11 \in {<<" ", "-", " ">>, <<"a">>}}

InitRow ==
    /\ row \in Rows
    /\ cell = NewCell
    /\ text = <<>> /\ applied = {} /\ ce = None /\ yr = None /\ num = None
    /\ cells = <<>> /\ res = NoRes /\ called = {}
    /\ pc = "record"

\* the loop body: the record is normalised and pushed, or the unwrap of
\* line 73 panics
ReadRecord ==
    /\ pc = "record"
    /\ IF row_panics(row)
       THEN pc' = "panic" /\ UNCHANGED <<cell, cells>>
       ELSE /\ cell' = read_record(row)
            /\ cells' = Append(cells, cell')
            /\ pc' = "pushed"
    /\ UNCHANGED <<text, applied, ce, yr, num, row, res, called>>

\* result? returns the csv error of a malformed record
RecordError ==
    /\ pc = "record"
    /\ pc' = "err"
    /\ UNCHANGED <<text, applied, ce, yr, num, row, cell, cells, res, called>>

NextRow == ReadRecord \/ RecordError

SpecRow == InitRow /\ [][NextRow]_vars

-----------------------------------------------------------------------------
(* Claims about the records read_csv produces, checked under SpecRow *)

\* the source text is empty after trimming, or is exactly "-"
Blank(s) == Stripped(s) = <<>> \/ s = <<"-">>

\* the textual fields that go through check_empty, with their csv column
NormalizedColumns ==
    [body_dimensions |-> 4, body_sim |-> 6, display_type |-> 7,
     display_resolution |-> 9, features_sensors |-> 10, platform_os |-> 11]

\* the textual fields copied without check_empty, with their csv column
RawColumns == [oem |-> 0, model |-> 1, launch_status |-> 3]

\* C2 as stated: every textual field, manufacturer, model and release_status
\* included, whose source text is empty after trimming or exactly "-" is
\* absent in the record.
C2_AllTextFieldsNormalized ==
    pc = "pushed" =>
        /\ \A f \in DOMAIN NormalizedColumns :
              Blank(GetOrDefault(row, NormalizedColumns[f])) => cell[f] = None
        /\ \A f \in DOMAIN RawColumns :
              Blank(GetOrDefault(row, RawColumns[f])) => cell[f] = None

\* C2 as amended: the six fields that go through check_empty are absent when
\* their source text is empty after trimming or exactly "-", and are never a
\* present empty string; manufacturer and model are always present and hold
\* the raw text, and release_status is always present, blank or "-" included.
C2_NormalizedFields ==
    pc = "pushed" =>
        /\ \A f \in DOMAIN NormalizedColumns :
              /\ Blank(GetOrDefault(row, NormalizedColumns[f])) => cell[f] = None
              /\ cell[f] # Some(<<>>)
        /\ cell.oem = Some(GetOrDefault(row, 0))
        /\ cell.model = Some(GetOrDefault(row, 1))
        /\ IsSome(cell.launch_status)
        /\ (Blank(GetOrDefault(row, 3)) => cell.launch_status = Some(GetOrDefault(row, 3)))

\* a record with blank dimensions, a dash display type, an empty manufacturer
\* and a dash status has been pushed
C2_Witness_BlankRow ==
    /\ pc = "pushed"
    /\ GetOrDefault(row, 4) = <<>> /\ cell.body_dimensions = None
    /\ GetOrDefault(row, 7) = <<"-">> /\ cell.display_type = None
    /\ GetOrDefault(row, 0) = <<>> /\ cell.oem = Some(<<>>)
    /\ GetOrDefault(row, 3) = <<"-">> /\ cell.launch_status = Some(<<"-">>)

\* C10: in every record read_csv produces, an absent announced_year implies
\* an absent body_weight.
C10_NoYearNoWeight ==
    pc = "pushed" => (cell.launch_announced = None => cell.body_weight = None)


-----------------------------------------------------------------------------
(* f32 arithmetic (exact on finite values) *)

F32Add(a, b) ==
    IF ~IsFinite(a) \/ ~IsFinite(b) THEN Inf
    ELSE Rat(a[1] * b[2] + b[1] * a[2], a[2] * b[2])

\* a / (n as f32), n > 0
F32DivInt(a, n) == IF ~IsFinite(a) THEN Inf ELSE Rat(a[1], a[2] * n)

F32Less(a, b) ==
    IF ~IsFinite(a) THEN FALSE
    ELSE IF ~IsFinite(b) THEN TRUE
    ELSE a[1] * b[2] < b[1] * a[2]

RECURSIVE NatToText(_)
NatToText(n) ==
    IF n < 10 THEN <<AsciiDigits[n + 1]>>
    ELSE NatToText(n \div 10) \o <<AsciiDigits[(n % 10) + 1]>>

\* number of decimals of the finite value n/d, d a divisor of a power of 10
RECURSIVE Decimals(_, _)
Decimals(d, k) == IF Pow10(k) % d = 0 THEN k ELSE Decimals(d, k + 1)

RECURSIVE PadZeros(_, _)
PadZeros(t, k) == IF Len(t) >= k THEN t ELSE PadZeros(<<"0">> \o t, k)

\* f32::to_string: the shortest decimal that reads back as the value
F32ToString(x) ==
    IF ~IsFinite(x) THEN <<"i", "n", "f">>
    ELSE LET k == Decimals(x[2], 0)
             whole == x[1] \div x[2]
             frac == ((x[1] % x[2]) * Pow10(k)) \div x[2]
         IN  IF k = 0 THEN NatToText(whole)
             ELSE NatToText(whole) \o <<".">> \o PadZeros(NatToText(frac), k)

-----------------------------------------------------------------------------
(* HashMap iteration and Iterator::max_by_key / max_by *)

\* the orders in which into_iter() may yield the keys of a hash map
IterOrders(keys) ==
    {o \in [1..Cardinality(keys) -> keys] : \A k \in keys : \E i \in DOMAIN o : o[i] = k}

\* max_by_key(|(_, count)| count) over the entries in iteration order: the
\* fold keeps the later element unless the earlier one is greater
RECURSIVE MaxByKeyFrom(_, _, _, _)
MaxByKeyFrom(order, count, i, best) ==
    IF i > Len(order) THEN best
    ELSE MaxByKeyFrom(order, count, i + 1,
                      IF count[best] > count[order[i]] THEN best ELSE order[i])

max_by_key(order, count) ==
    IF order = <<>> THEN None ELSE Some(MaxByKeyFrom(order, count, 2, order[1]))

\* max_by on the averages sum / count, compared with partial_cmp
RECURSIVE MaxByAvgFrom(_, _, _, _)
MaxByAvgFrom(order, avg, i, best) ==
    IF i > Len(order) THEN best
    ELSE MaxByAvgFrom(order, avg, i + 1,
                      IF F32Less(avg[order[i]], avg[best]) THEN best ELSE order[i])

max_by_avg(order, avg) ==
    IF order = <<>> THEN None ELSE Some(MaxByAvgFrom(order, avg, 2, order[1]))

-----------------------------------------------------------------------------
(* The aggregation queries *)

Indices(cs) == 1..Len(cs)

\* the threshold written into year_most_phones_launched__after_year
YearThreshold == 1999

year_counts_no_threshold(cs) ==
    LET years == {Unwrap(cs[i].launch_announced) : i \in
                     {j \in Indices(cs) : IsSome(cs[j].launch_announced)}}
    IN  [y \in years |->
            Cardinality({i \in Indices(cs) : cs[i].launch_announced = Some(y)})]

\* year_counts after the loop of lines 133-140
year_counts(cs) ==
    LET years == {Unwrap(cs[i].launch_announced) : i \in
                     {j \in Indices(cs) : /\ IsSome(cs[j].launch_announced)
                                          /\ Unwrap(cs[j].launch_announced) > YearThreshold}}
    IN  [y \in years |->
            Cardinality({i \in Indices(cs) : cs[i].launch_announced = Some(y)})]

year_most_phones_launched__after_year(cs, order) ==
    max_by_key(order, year_counts(cs))

\* the present body weights of the cells cs[i], i <= n and i in sel, in
\* collection order
RECURSIVE PresentWeights(_, _, _)
PresentWeights(cs, n, sel) ==
    IF n = 0 THEN <<>>
    ELSE IF n \in sel /\ IsSome(cs[n].body_weight)
         THEN Append(PresentWeights(cs, n - 1, sel), Unwrap(cs[n].body_weight))
         ELSE PresentWeights(cs, n - 1, sel)

\* sum += weight over w, from 0.0
RECURSIVE SumF32(_)
SumF32(w) ==
    IF w = <<>> THEN <<0, 1>>
    ELSE F32Add(SumF32(SubSeq(w, 1, Len(w) - 1)), w[Len(w)])

\* the averages max_by compares, per key of oem_weights (lines 151-161)
oem_averages(cs) ==
    LET oems == {Unwrap(cs[i].oem) : i \in
                    {j \in Indices(cs) : IsSome(cs[j].oem) /\ IsSome(cs[j].body_weight)}}
    IN  [o \in oems |->
            LET w == PresentWeights(cs, Len(cs), {i \in Indices(cs) : cs[i].oem = Some(o)})
            IN  F32DivInt(SumF32(w), Len(w))]

highest_avg_body_weight_oem(cs, order) ==
    IF DOMAIN oem_averages(cs) = {} THEN None
    ELSE max_by_avg(order, oem_averages(cs))

\* s.split(',')
RECURSIVE Split(_)
Split(s) ==
    IF \E i \in 1..Len(s) : s[i] = ","
    THEN LET p == CHOOSE i \in 1..Len(s) : s[i] = "," /\ \A j \in 1..(i - 1) : s[j] # ","
         IN  <<SubSeq(s, 1, p - 1)>> \o Split(SubSeq(s, p + 1, Len(s)))
    ELSE <<s>>

\* sensors_str.split(',').map(|s| s.trim()).collect()
Sensors(s) == [t \in 1..Len(Split(s)) |-> Trim(Split(s)[t])]

RECURSIVE CountSingleUpTo(_, _)
CountSingleUpTo(cs, n) ==
    IF n = 0 THEN 0
    ELSE CountSingleUpTo(cs, n - 1) +
         (IF /\ IsSome(cs[n].features_sensors)
             /\ Len(Sensors(Unwrap(cs[n].features_sensors))) = 1
          THEN 1 ELSE 0)

count_phones_with_single_sensor(cs) == CountSingleUpTo(cs, Len(cs))

\* released_year.parse().unwrap_or_default(), parsed as u32
ReleasedYear(s) == IF IsSome(parse_u32(s)) THEN Unwrap(parse_u32(s)) ELSE 0

RECURSIVE MismatchedUpTo(_, _)
MismatchedUpTo(cs, n) ==
    IF n = 0 THEN <<>>
    ELSE IF /\ IsSome(cs[n].launch_announced) /\ IsSome(cs[n].launch_status)
            /\ Unwrap(cs[n].launch_announced) # ReleasedYear(Unwrap(cs[n].launch_status))
            /\ IsSome(cs[n].oem) /\ IsSome(cs[n].model)
         THEN Append(MismatchedUpTo(cs, n - 1),
                     <<Unwrap(cs[n].oem), Unwrap(cs[n].model)>>)
         ELSE MismatchedUpTo(cs, n - 1)

RECURSIVE MismatchedNoDefaultUpTo(_, _)
MismatchedNoDefaultUpTo(cs, n) ==
    IF n = 0 THEN <<>>
    ELSE IF /\ IsSome(cs[n].launch_announced) /\ IsSome(cs[n].launch_status)
            /\ IsSome(parse_u32(Unwrap(cs[n].launch_status)))
            /\ Unwrap(cs[n].launch_announced) # ReleasedYear(Unwrap(cs[n].launch_status))
            /\ IsSome(cs[n].oem) /\ IsSome(cs[n].model)
         THEN Append(MismatchedNoDefaultUpTo(cs, n - 1),
                     <<Unwrap(cs[n].oem), Unwrap(cs[n].model)>>)
         ELSE MismatchedNoDefaultUpTo(cs, n - 1)

phones_mismatched_no_default(cs) == MismatchedNoDefaultUpTo(cs, Len(cs))

phones_announced_in_one_year_released_in_another(cs) == MismatchedUpTo(cs, Len(cs))

\* oem_counts after the loop of lines 227-232
oem_counts(cs) ==
    LET oems == {Unwrap(cs[i].oem) : i \in {j \in Indices(cs) : IsSome(cs[j].oem)}}
    IN  [o \in oems |-> Cardinality({i \in Indices(cs) : cs[i].oem = Some(o)})]

most_common_oem(cs, order) == max_by_key(order, oem_counts(cs))

\* the counts of lines 245-250, keyed by display_size.to_string()
display_size_counts(cs) ==
    LET present == {j \in Indices(cs) : IsSome(cs[j].display_size)}
        key == [i \in present |-> F32ToString(Unwrap(cs[i].display_size))]
    IN  [k \in {key[i] : i \in present} |->
            Cardinality({i \in present : key[i] = k})]

most_common_display_size(cs, order) == max_by_key(order, display_size_counts(cs))

mean_body_weight(cs) ==
    LET w == PresentWeights(cs, Len(cs), Indices(cs))
    IN  IF Len(w) > 0 THEN Some(F32DivInt(SumF32(w), Len(w))) ELSE None

\* x inserted into the ascending sequence w, after the elements equal to it
RECURSIVE Insert(_, _)
Insert(w, x) ==
    IF w = <<>> THEN <<x>>
    ELSE IF F32Less(x, w[1]) THEN <<x>> \o w
    ELSE <<w[1]>> \o Insert(Tail(w), x)

\* weights.sort_by(|a, b| a.partial_cmp(b).unwrap_or(Equal)): a stable sort
RECURSIVE SortWeights(_)
SortWeights(w) ==
    IF w = <<>> THEN <<>>
    ELSE Insert(SortWeights(SubSeq(w, 1, Len(w) - 1)), w[Len(w)])

MedianOf(w) ==
    LET len == Len(w)
    IN  IF len = 0 THEN None
        ELSE IF len % 2 = 0
             THEN Some(F32DivInt(F32Add(w[len \div 2], w[(len \div 2) + 1]), 2))
             ELSE Some(w[(len \div 2) + 1])

median_unsorted(cs) == MedianOf(PresentWeights(cs, Len(cs), Indices(cs)))

median_body_weight(cs) ==
    MedianOf(SortWeights(PresentWeights(cs, Len(cs), Indices(cs))))


-----------------------------------------------------------------------------
(* One invocation of each query: it borrows the collection (&[Cell]) and  *)
(* returns a value.  A query that drains a hash map sees its keys in any  *)
(* order.                                                                 *)

Return(q, v) ==
    /\ res' = [res EXCEPT ![q] = v]
    /\ called' = called \cup {q}
    /\ UNCHANGED <<text, applied, ce, yr, num, row, cell>>

Do_year_most ==
    /\ \E order \in IterOrders(DOMAIN year_counts(cells)) :
          Return("year_most", year_most_phones_launched__after_year(cells, order))
    /\ cells' = cells

Do_highest_avg ==
    /\ \E order \in IterOrders(DOMAIN oem_averages(cells)) :
          Return("highest_avg", highest_avg_body_weight_oem(cells, order))
    /\ cells' = cells

Do_single_sensor ==
    /\ Return("single_sensor", count_phones_with_single_sensor(cells))
    /\ cells' = cells

Do_mismatched ==
    /\ Return("mismatched", phones_announced_in_one_year_released_in_another(cells))
    /\ cells' = cells

Do_most_common_oem ==
    /\ \E order \in IterOrders(DOMAIN oem_counts(cells)) :
          Return("most_common_oem", most_common_oem(cells, order))
    /\ cells' = cells

Do_most_common_display_size ==
    /\ \E order \in IterOrders(DOMAIN display_size_counts(cells)) :
          Return("most_common_display_size", most_common_display_size(cells, order))
    /\ cells' = cells

Do_mean ==
    /\ Return("mean", mean_body_weight(cells))
    /\ cells' = cells

\* the cells ordered by body weight, those without a weight first
RECURSIVE InsertCell(_, _)
InsertCell(cs, c) ==
    IF cs = <<>> THEN <<c>>
    ELSE IF /\ IsSome(cs[1].body_weight)
            /\ (~IsSome(c.body_weight)
                  \/ F32Less(Unwrap(c.body_weight), Unwrap(cs[1].body_weight)))
         THEN <<c>> \o cs
         ELSE <<cs[1]>> \o InsertCell(Tail(cs), c)

RECURSIVE SortCells(_)
SortCells(cs) ==
    IF cs = <<>> THEN <<>>
    ELSE InsertCell(SortCells(SubSeq(cs, 1, Len(cs) - 1)), cs[Len(cs)])

Do_median_in_place ==
    /\ Return("median", median_body_weight(cells))
    /\ cells' = SortCells(cells)

\* the sort of line 285 is on the collected copy, not on cells
Do_median ==
    /\ Return("median", median_body_weight(cells))
    /\ cells' = cells

-----------------------------------------------------------------------------
(* Sample csv records and the collections made of them *)

SampleRow(oem, model, announced, status, weight, size, sensors) ==
    <<oem, model, announced, status, <<"-">>, weight, <<"-">>, <<"-">>, size,
      <<"-">>, sensors, <<"-">>>>

\* announced 2019, released 2020
RowXY ==
    SampleRow(<<"X">>, <<"Y">>, <<"2", "0", "1", "9">>, <<"2", "0", "2", "0">>,
              <<"1", "0", "0">>, <<"6", ".", "1">>, <<"a">>)

\* announced and released 2019
RowXZ ==
    SampleRow(<<"X">>, <<"Z">>, <<"2", "0", "1", "9">>, <<"2", "0", "1", "9">>,
              <<"2", "0", "0", " ", "g">>, <<"6", ".", "1">>, <<"a", ",", " ", "g">>)

\* announced 2020, a status without a year
RowWV ==
    SampleRow(<<"W">>, <<"V">>, <<"2", "0", "2", "0">>, <<"D">>,
              <<"3", "0", "0">>, <<"5">>, <<"a">>)

\* announced before 2000
RowWU ==
    SampleRow(<<"W">>, <<"U">>, <<"1", "9", "9", "8">>, <<"1", "9", "9", "8">>,
              <<"1", "0", "0">>, <<>>, <<"-">>)

RowBlank == SampleRow(<<>>, <<>>, <<>>, <<>>, <<>>, <<>>, <<>>)

\* the year is written in digits that str::parse rejects
RowArabicYear ==
    SampleRow(<<"X">>, <<"Y">>, <<ArabicTwo, "0", "1", "9">>, <<>>, <<>>, <<>>, <<>>)

SampleRows == {RowXY, RowXZ, RowWV, RowWU, RowBlank}

\* the cells read_csv makes of the sample rows, and Cell::new()
QueryCells == {read_record(r) : r \in SampleRows} \cup {NewCell}

Collections == UNION {[1..n -> QueryCells] : n \in 0..MaxCells}

-----------------------------------------------------------------------------
(* SpecQuery: one query applied to a collection of up to MaxCells cells *)

InitQuery ==
    /\ cells \in Collections
    /\ res = NoRes /\ called = {}
    /\ text = <<>> /\ applied = {} /\ ce = None /\ yr = None /\ num = None
    /\ row = <<>> /\ cell = NewCell
    /\ pc = "call"

Call_year_most == pc = "call" /\ Do_year_most /\ pc' = "returned"

Call_highest_avg == pc = "call" /\ Do_highest_avg /\ pc' = "returned"

Call_single_sensor == pc = "call" /\ Do_single_sensor /\ pc' = "returned"

Call_mismatched == pc = "call" /\ Do_mismatched /\ pc' = "returned"

Call_most_common_oem == pc = "call" /\ Do_most_common_oem /\ pc' = "returned"

Call_most_common_display_size ==
    pc = "call" /\ Do_most_common_display_size /\ pc' = "returned"

Call_mean == pc = "call" /\ Do_mean /\ pc' = "returned"

Call_median == pc = "call" /\ Do_median /\ pc' = "returned"

NextQuery ==
    \/ Call_year_most
    \/ Call_highest_avg
    \/ Call_single_sensor
    \/ Call_mismatched
    \/ Call_most_common_oem
    \/ Call_most_common_display_size
    \/ Call_mean
    \/ Call_median

SpecQuery == InitQuery /\ [][NextQuery]_vars

-----------------------------------------------------------------------------
(* SpecPurity: the queries invoked in any order, any number of times *)

PurityCells == {read_record(r) : r \in {RowXY, RowWV, RowWU}}

InitPurity ==
    /\ cells \in UNION {[1..n -> PurityCells] : n \in 0..MaxCells}
    /\ res = NoRes /\ called = {}
    /\ text = <<>> /\ applied = {} /\ ce = None /\ yr = None /\ num = None
    /\ row = <<>> /\ cell = NewCell
    /\ pc = "queries"

Invoke_year_most == pc = "queries" /\ Do_year_most /\ pc' = pc

Invoke_highest_avg == pc = "queries" /\ Do_highest_avg /\ pc' = pc

Invoke_single_sensor == pc = "queries" /\ Do_single_sensor /\ pc' = pc

Invoke_mismatched == pc = "queries" /\ Do_mismatched /\ pc' = pc

Invoke_most_common_oem == pc = "queries" /\ Do_most_common_oem /\ pc' = pc

Invoke_most_common_display_size ==
    pc = "queries" /\ Do_most_common_display_size /\ pc' = pc

Invoke_mean == pc = "queries" /\ Do_mean /\ pc' = pc

Invoke_median == pc = "queries" /\ Do_median /\ pc' = pc

NextPurity ==
    \/ Invoke_year_most
    \/ Invoke_highest_avg
    \/ Invoke_single_sensor
    \/ Invoke_mismatched
    \/ Invoke_most_common_oem
    \/ Invoke_most_common_display_size
    \/ Invoke_mean
    \/ Invoke_median

SpecPurity == InitPurity /\ [][NextPurity]_vars


-----------------------------------------------------------------------------
(* Spec: main.  read_csv reads up to MaxCells records, then the queries   *)
(* run in the order main calls them and main unwraps the result of        *)
(* highest_avg_body_weight_oem (line 423).                                *)

MainRows == SampleRows \cup {RowArabicYear}

Init ==
    /\ cells = <<>>
    /\ res = NoRes /\ called = {}
    /\ text = <<>> /\ applied = {} /\ ce = None /\ yr = None /\ num = None
    /\ row = <<>> /\ cell = NewCell
    /\ pc = "open"

\* File::open(filename)? fails: main returns the error
OpenError ==
    /\ pc = "open"
    /\ pc' = "err"
    /\ UNCHANGED <<text, applied, ce, yr, num, row, cell, cells, res, called>>

OpenOk ==
    /\ pc = "open"
    /\ pc' = "reading"
    /\ UNCHANGED <<text, applied, ce, yr, num, row, cell, cells, res, called>>

\* one iteration of the loop of read_csv
MainReadRecord ==
    /\ pc = "reading"
    /\ Len(cells) < MaxCells
    /\ \E r \in MainRows :
          /\ row' = r
          /\ IF row_panics(r)
             THEN pc' = "panic_read" /\ UNCHANGED <<cell, cells>>
             ELSE /\ cell' = read_record(r)
                  /\ cells' = Append(cells, cell')
                  /\ pc' = pc
    /\ UNCHANGED <<text, applied, ce, yr, num, res, called>>

\* result? fails on a malformed record: read_csv and main return the error
MainRecordError ==
    /\ pc = "reading"
    /\ pc' = "err"
    /\ UNCHANGED <<text, applied, ce, yr, num, row, cell, cells, res, called>>

\* the records are exhausted: read_csv returns Ok(cells)
ReadEnd ==
    /\ pc = "reading"
    /\ pc' = "most_common_oem"
    /\ UNCHANGED <<text, applied, ce, yr, num, row, cell, cells, res, called>>

Main_most_common_oem ==
    pc = "most_common_oem" /\ Do_most_common_oem /\ pc' = "most_common_display_size"

Main_most_common_display_size ==
    pc = "most_common_display_size" /\ Do_most_common_display_size /\ pc' = "highest_avg"

Main_highest_avg == pc = "highest_avg" /\ Do_highest_avg /\ pc' = "mismatched"

Main_mismatched == pc = "mismatched" /\ Do_mismatched /\ pc' = "single_sensor"

Main_single_sensor == pc = "single_sensor" /\ Do_single_sensor /\ pc' = "mean"

Main_mean == pc = "mean" /\ Do_mean /\ pc' = "median"

Main_median == pc = "median" /\ Do_median /\ pc' = "year_most"

Main_year_most == pc = "year_most" /\ Do_year_most /\ pc' = "unwrap"

\* highest_body_weight.unwrap(), then the cells are printed and main
\* returns Ok(())
MainUnwrap ==
    /\ pc = "unwrap"
    /\ pc' = IF res["highest_avg"] = None THEN "panic_unwrap" ELSE "done"
    /\ UNCHANGED <<text, applied, ce, yr, num, row, cell, cells, res, called>>

Next ==
    \/ OpenError
    \/ OpenOk
    \/ MainReadRecord
    \/ MainRecordError
    \/ ReadEnd
    \/ Main_most_common_oem
    \/ Main_most_common_display_size
    \/ Main_highest_avg
    \/ Main_mismatched
    \/ Main_single_sensor
    \/ Main_mean
    \/ Main_median
    \/ Main_year_most
    \/ MainUnwrap

Spec == Init /\ [][Next]_vars

-----------------------------------------------------------------------------
(* Claims about single queries, checked under SpecQuery *)

\* the status read as an integer, a status that is not a number counting as 0
IntOrZero(s) ==
    IF s # <<>> /\ \A i \in 1..Len(s) : IsAsciiDigit(s[i]) THEN DigitsValue(s) ELSE 0

Qualifies(c) ==
    /\ IsSome(c.launch_announced) /\ IsSome(c.launch_status)
    /\ IsSome(c.oem) /\ IsSome(c.model)
    /\ IntOrZero(Unwrap(c.launch_status)) # Unwrap(c.launch_announced)

\* C5: the result holds, in collection order, the (manufacturer, model) pair
\* of exactly the records with announced_year, release_status, manufacturer
\* and model present whose release_status, read as an integer (0 when it is
\* not a number), differs from announced_year; it is empty when there is none.
C5_MismatchedYears ==
    "mismatched" \in called =>
        LET q == {i \in Indices(cells) : Qualifies(cells[i])}
            r == res["mismatched"]
        IN  /\ Len(r) = Cardinality(q)
            /\ \A i \in q :
                  r[Cardinality({j \in q : j <= i})] =
                      <<Unwrap(cells[i].oem), Unwrap(cells[i].model)>>

\* (X, Z) announced and released in 2019 is left out; (X, Y) announced 2019
\* and released 2020 and (W, V) with a status that is no year are reported,
\* in that order
C5_Witness_Excluded_Included ==
    /\ "mismatched" \in called
    /\ cells = <<read_record(RowXZ), read_record(RowXY), read_record(RowWV)>>
    /\ res["mismatched"] = <<<<<<"X">>, <<"Y">>>>, <<<<"W">>, <<"V">>>>>>

\* the present body weights, by index
WeightAt(cs) ==
    [i \in {j \in Indices(cs) : IsSome(cs[j].body_weight)} |-> Unwrap(cs[i].body_weight)]

\* the k-th smallest value of the family w
KthSmallest(w, k) ==
    CHOOSE v \in {w[i] : i \in DOMAIN w} :
        /\ Cardinality({i \in DOMAIN w : F32Less(w[i], v)}) < k
        /\ k <= Cardinality({i \in DOMAIN w : ~F32Less(v, w[i])})

\* C6: the median is absent when no record has a body weight; otherwise it
\* is the middle one of the present weights in ascending order when their
\* count is odd, and the average of the two middle ones when it is even.
C6_Median ==
    "median" \in called =>
        LET w == WeightAt(cells)
            n == Cardinality(DOMAIN w)
        IN  IF n = 0 THEN res["median"] = None
            ELSE IF n % 2 = 1
                 THEN res["median"] = Some(KthSmallest(w, (n + 1) \div 2))
                 ELSE res["median"] =
                          Some(F32DivInt(F32Add(KthSmallest(w, n \div 2),
                                                KthSmallest(w, (n \div 2) + 1)), 2))

\* the weights 200 and 100, with a record without weight between them,
\* have median 150
C6_Witness_EvenUnsorted ==
    /\ "median" \in called
    /\ cells = <<read_record(RowXZ), NewCell, read_record(RowXY)>>
    /\ res["median"] = Some(<<150, 1>>)

\* the records announced after 1999
After1999(cs) ==
    {i \in Indices(cs) : /\ IsSome(cs[i].launch_announced)
                         /\ Unwrap(cs[i].launch_announced) > 1999}

Launches(cs, y) == Cardinality({i \in Indices(cs) : cs[i].launch_announced = Some(y)})

MostLaunches(cs, i) ==
    \A j \in After1999(cs) :
        Launches(cs, Unwrap(cs[j].launch_announced))
            <= Launches(cs, Unwrap(cs[i].launch_announced))

\* C7 as stated, for the threshold 1999 of the code: the result is absent iff
\* no record was announced after the threshold; otherwise it is a year after
\* the threshold with the highest number of records, and on a tie the first
\* such year encountered in the collection.
C7_FirstEncounteredMaximum ==
    "year_most" \in called =>
        LET r == res["year_most"]
            top == {i \in After1999(cells) : MostLaunches(cells, i)}
        IN  /\ (r = None) <=> (After1999(cells) = {})
            /\ (r # None =>
                   r = cells[CHOOSE i \in top : \A j \in top : i <= j].launch_announced)

\* C7 as amended: the threshold is the fixed year 1999; the result is absent
\* iff no record was announced after 1999; otherwise it is a year after 1999
\* with the highest number of records, any one of them on a tie.
C7_YearWithMostLaunches ==
    "year_most" \in called =>
        LET r == res["year_most"]
        IN  /\ (r = None) <=> (After1999(cells) = {})
            /\ (r # None =>
                   \E i \in After1999(cells) :
                      /\ cells[i].launch_announced = r
                      /\ MostLaunches(cells, i))

\* 2019 and 2020 have one record each, 1998 does not count, and the year
\* returned is the one encountered last
C7_Witness_TieLaterYear ==
    /\ "year_most" \in called
    /\ cells = <<read_record(RowWU), read_record(RowXY), read_record(RowWV)>>
    /\ res["year_most"] = Some(2020)

-----------------------------------------------------------------------------
(* Claim about the queries together, checked under SpecPurity *)

HashQueries == {"year_most", "highest_avg", "most_common_oem", "most_common_display_size"}

\* the keys of count with the highest count
MostCounted(count) ==
    {k \in DOMAIN count : \A j \in DOMAIN count : count[j] <= count[k]}

\* the keys of avg with the highest average
HighestAverage(avg) ==
    {k \in DOMAIN avg : \A j \in DOMAIN avg : ~F32Less(avg[k], avg[j])}

OptionsOf(keys) == IF keys = {} THEN {None} ELSE {Some(k) : k \in keys}

\* the maxima a hash-map query chooses among
Maxima(q, cs) ==
    CASE q = "year_most" -> OptionsOf(MostCounted(year_counts(cs)))
      [] q = "highest_avg" -> OptionsOf(HighestAverage(oem_averages(cs)))
      [] q = "most_common_oem" -> OptionsOf(MostCounted(oem_counts(cs)))
      [] q = "most_common_display_size" -> OptionsOf(MostCounted(display_size_counts(cs)))

\* C8 as stated: no query changes the collection, and a query returns the
\* same value whatever queries ran before it.
C8_QueriesPure ==
    [][/\ cells' = cells
       /\ \A q \in called : res'[q] = res[q]]_vars

\* C8 as amended: no query changes the collection; count_single_sensor,
\* mismatched, mean and median return the same value whatever ran before;
\* the four queries that take a maximum from a hash map return a maximum of
\* the unchanged collection, the same one whenever it is unique.
C8_QueriesPureUpToTies ==
    [][/\ cells' = cells
       /\ \A q \in called \ HashQueries : res'[q] = res[q]
       /\ \A q \in called' \cap HashQueries :
             /\ res'[q] \in Maxima(q, cells)
             /\ (q \in called /\ Cardinality(Maxima(q, cells)) = 1 => res'[q] = res[q])]_vars

\* every query has run on an unsorted collection with tied manufacturers,
\* and most_common_oem has returned the tied W
C8_Witness_AllQueriesRun ==
    /\ called = Queries
    /\ cells = <<read_record(RowWV), read_record(RowXY)>>
    /\ res["most_common_oem"] = Some(<<"W">>)
    /\ res["median"] = Some(<<200, 1>>)

-----------------------------------------------------------------------------
(* Claim about main, checked under Spec *)

\* C9: once read_csv has returned a collection, every query returns and main
\* completes: the run aborts only while the file is being read.
C9_OnlyIngestionFails == pc # "panic_unwrap"

=============================================================================
